---- MODULE Spec2Model ----
(***************************************************************************)
(* Model of api/server.js (vijay-techh/tarunorder): the order transaction  *)
(* handlers POST /api/new-customer, POST /api/generate-bill and            *)
(* POST /api/update-order over a PostgreSQL store reached through a pg     *)
(* Pool, POST /api/update-status, the reader GET /api/order-full-details,  *)
(* and the invoice renderer GET /api/invoice/:orderId: its two queries,    *)
(* its day count, the placement of every header, row and box it draws on   *)
(* the pages of the document, and the stream that carries the document.    *)
(*                                                                         *)
(* A handler is an async function: the code between two awaits runs        *)
(* without interleaving, so one action is "the awaited call returns (or    *)
(* throws) and the handler runs to its next await".  pc names the awaited  *)
(* call.                                                                   *)
(*                                                                         *)
(* The store keeps row versions as PostgreSQL does: xmin is the            *)
(* transaction that wrote the version (0: committed), xmax the open        *)
(* transaction that deleted or superseded it (0: none), which is also its  *)
(* row lock.  The handlers never set an isolation level, so statements run *)
(* READ COMMITTED: each sees the versions committed when it starts plus    *)
(* its own transaction's, and a write waits for the row lock.              *)
(***************************************************************************)
EXTENDS Integers, Sequences, FiniteSets, TLC

(* ----------------------------- bounds ---------------------------------- *)
NumSlots == 2       \* request slots: at most this many handlers in flight
MaxReqs == 2        \* requests started in one behaviour
MaxItems == 2       \* longest item list of a request
TicksPerDay == 2    \* clock ticks in a day (resolution of a date value)
MaxTick == 9        \* latest instant drawn for the day count
MaxReads == 1       \* GET /api/order-full-details requests in one behaviour
MaxRenders == 2     \* GET /api/invoice requests in one behaviour
MaxRows == 11       \* most item rows of the order an invoice is rendered for

Slots == 1..NumSlots

(* --------------------------- JS values --------------------------------- *)
Undef == [t |-> "undefined"]
NULL == [t |-> "null"]
Str(s) == [t |-> "string", s |-> s]
Num(n) == [t |-> "number", n |-> n]
When(d) == [t |-> "date", d |-> d]          \* an instant, in ticks
Arr(a) == [t |-> "array", a |-> a]

\* JS truthiness as used by !x, x || y and x && y
Falsy(v) == \/ v.t \in {"undefined", "null"}
            \/ v = Str("")
            \/ v = Num(0)

\* x || null
OrNull(v) == IF Falsy(v) THEN NULL ELSE v

\* COALESCE(new, old)
COALESCE(new, old) == IF new = NULL THEN old ELSE new

NaN == [t |-> "NaN"]
Infinity == [t |-> "Infinity"]

\* the numeric strings drawn, with the number each one reads as
Numerals == [ s \in {"12", "-3", "050"} |-> CASE s = "12" -> 12 [] s = "-3" -> -3 [] s = "050" -> 50 ]

\* Number(v) for the values a price or a quantity is drawn from
ToNumber(v) ==
  CASE v.t \in {"number", "NaN", "Infinity"} -> v
    [] v.t = "undefined" -> NaN
    [] v.t = "null" -> Num(0)
    [] v.t = "string" -> IF v.s = "" THEN Num(0)
                         ELSE IF v.s \in DOMAIN Numerals THEN Num(Numerals[v.s])
                         ELSE NaN

\* const n = Number(v); return Number.isFinite(n) ? n : 0;
safeNumber(v) == IF ToNumber(v).t = "number" THEN ToNumber(v).n ELSE 0

Day(n) == When(n * TicksPerDay)

\* dayjs().format("YYYY-MM-DD"): the current date
Today == Day(1)

(* ----------------------------- inputs ---------------------------------- *)
Catalogue ==
  << [product |-> "Tent", price |-> Num(300), quantity |-> Num(2)],
     [product |-> "Stool", price |-> Num(20), quantity |-> Num(5)],
     [product |-> "Lamp", price |-> Num(70), quantity |-> Num(1)],
     [product |-> "Mat", price |-> Num(10), quantity |-> Num(3)] >>

ItemLists == { Arr(SubSeq(Catalogue, 1, n)) : n \in 1..MaxItems }

BadItems == { Arr(<< >>), Str("Tent") }

\* what a client may send as a price or a quantity
Amounts ==
  { Num(5), Num(0), Num(-5), Str("12"), Str("-3"), Str("050"), Str(""), Str("abc"),
    NaN, Infinity, Undef, NULL }

OddItemLists ==
  { Arr(<< [product |-> "Tent", price |-> p, quantity |-> q] >>) : p \in Amounts, q \in Amounts }

GoodCustomers ==
  { [name |-> Str("Asha"), phone |-> Str("900"), alt_phone |-> Str("901"), address |-> Str("Shimoga")],
    [name |-> Str("Ravi"), phone |-> Str("900"), alt_phone |-> Undef, address |-> Str("Bhadravati")],
    [name |-> Str("Ravi"), phone |-> Str("800"), alt_phone |-> Str(""), address |-> Str("Shimoga")] }

BadCustomers ==
  { [name |-> Undef, phone |-> Str("900"), alt_phone |-> Undef, address |-> Str("Shimoga")],
    [name |-> Str("Asha"), phone |-> Str(""), alt_phone |-> Undef, address |-> Str("Shimoga")],
    [name |-> Str("Asha"), phone |-> Str("900"), alt_phone |-> Undef, address |-> Undef] }

RentStarts == { Undef, Day(1) }
RentEnds == { Undef, Day(3) }
OrderDates == { Undef, Day(2) }
OrderIds == { Undef, Num(1), Num(2), Num(7) }

CreateBody(c, rs, re, od, its) ==
  [name |-> c.name, phone |-> c.phone, alt_phone |-> c.alt_phone, address |-> c.address,
   rent_start |-> rs, rent_end |-> re, order_date |-> od, items |-> its, orderId |-> Undef]

UpdateBody(o, rs, re, od, its) ==
  [name |-> Undef, phone |-> Undef, alt_phone |-> Undef, address |-> Undef,
   rent_start |-> rs, rent_end |-> re, order_date |-> od, items |-> its, orderId |-> o]

AnyCustomer == CHOOSE c \in GoodCustomers : c.alt_phone = Str("901")
AnyItems == Arr(SubSeq(Catalogue, 1, 1))

\* request bodies of the two create entry points
CreateBodies ==
  { CreateBody(c, rs, re, od, its) :
      c \in GoodCustomers, rs \in RentStarts, re \in RentEnds, od \in OrderDates, its \in ItemLists }
  \cup { CreateBody(c, Undef, Undef, Undef, AnyItems) : c \in BadCustomers }
  \cup { CreateBody(AnyCustomer, Undef, Undef, Undef, its) : its \in BadItems \cup {Undef} }

\* request bodies of /api/update-order
UpdateBodies ==
  { UpdateBody(o, rs, re, od, its) :
      o \in OrderIds \ {Undef}, rs \in RentStarts, re \in RentEnds, od \in OrderDates, its \in ItemLists }
  \cup { UpdateBody(Undef, Undef, Undef, Undef, AnyItems) }
  \cup { UpdateBody(Num(1), Undef, Undef, Undef, its) : its \in BadItems \cup {Undef} }

Kinds == { "new-customer", "generate-bill", "update-order" }

\* /api/generate-bill does not read order_date
BodiesOf(k) ==
  CASE k = "update-order" -> UpdateBodies
    [] k = "generate-bill" -> { b \in CreateBodies : b.order_date = Undef }
    [] OTHER -> CreateBodies

\* the bodies drawn when handlers overlap: no choice of dates
Plain(b) == b.rent_start = Undef /\ b.rent_end = Undef /\ b.order_date = Undef

(* ------------------------------ state ---------------------------------- *)
VARIABLES
  customers,    \* row versions of table customers
  orders,       \* row versions of table orders
  order_items,  \* row versions of table order_items
  seq,          \* the id sequences of the three tables (never rolled back)
  pool,         \* number of clients checked out of the pool
  rq,           \* per slot: the handler's position and locals
  started,      \* requests started so far
  lastWrite,    \* history: per order id, the item list of the last committed writer
  days,         \* the day count computation: its inputs and result
  inv,          \* GET /api/invoice/:orderId: the handler's position, locals and output
  rd            \* GET /api/order-full-details: the handler's position, locals and answer

vars == << customers, orders, order_items, seq, pool, rq, started, lastWrite, days, inv, rd >>

(* --------------------------- store helpers ----------------------------- *)
Committed(T) == { w \in T : w.xmin = 0 }

\* the versions a statement of transaction r sees
Visible(T, r) == { w \in T : (w.xmin = 0 \/ w.xmin = r) /\ w.xmax # r }

\* another open transaction holds the lock of version w
LockedByOther(w, r) == w.xmax # 0 /\ w.xmax # r

\* transaction r writes version new over the visible version old
Supersede(T, old, new, r) ==
  IF old.xmin = r
    THEN (T \ {old}) \cup {[new EXCEPT !.xmin = r, !.xmax = 0]}
    ELSE (T \ {old}) \cup {[old EXCEPT !.xmax = r], [new EXCEPT !.xmin = r, !.xmax = 0]}

\* variant: the DELETE leaves the oldest of the rows in place
RemoveButOldest(T, D, r) ==
  { IF w \in D /\ (\E v \in D : v.id < w.id) THEN [w EXCEPT !.xmax = r] ELSE w :
    w \in { v \in T : ~(v \in D /\ v.xmin = r) } }

\* transaction r deletes the versions D
Remove(T, D, r) ==
  { IF w \in D THEN [w EXCEPT !.xmax = r] ELSE w : w \in { v \in T : ~(v \in D /\ v.xmin = r) } }

\* COMMIT of transaction r
CommitRows(T, r) ==
  { IF w.xmin = r THEN [w EXCEPT !.xmin = 0] ELSE w : w \in { v \in T : v.xmax # r } }

\* variant: the catch block ends the transaction with COMMIT
RollbackRowsCommits(T, r) == CommitRows(T, r)

\* ROLLBACK of transaction r (or the server dropping it with its connection)
RollbackRows(T, r) ==
  { IF w.xmax = r THEN [w EXCEPT !.xmax = 0] ELSE w : w \in { v \in T : v.xmin # r } }

\* a row as a reader sees it
Plainrow(w) == [ f \in (DOMAIN w) \ {"xmin", "xmax"} |-> w[f] ]

\* the committed store
Store ==
  [ customers |-> { Plainrow(w) : w \in Committed(customers) },
    orders |-> { Plainrow(w) : w \in Committed(orders) },
    order_items |-> { Plainrow(w) : w \in Committed(order_items) } ]

RECURSIVE SumLines(_)
SumLines(S) ==
  IF S = {} THEN 0
  ELSE LET w == CHOOSE x \in S : TRUE IN w.line_total + SumLines(S \ {w})

\* ORDER BY id ASC
RECURSIVE ById(_)
ById(S) ==
  IF S = {} THEN << >>
  ELSE LET w == CHOOSE x \in S : \A y \in S : x.id <= y.id IN << w >> \o ById(S \ {w})

\* the line an item of a request body becomes (the body of the three item loops)
Line(it) ==
  LET price == safeNumber(it.price)
      qty == safeNumber(it.quantity)
  IN [product |-> it.product, price |-> price, quantity |-> qty, line_total |-> price * qty]

RECURSIVE SumSeq(_)
SumSeq(s) == IF s = << >> THEN 0 ELSE Head(s).line_total + SumSeq(Tail(s))

Lines(a) == [ i \in 1..Len(a) |-> Line(a[i]) ]

(* ------------------------------- Init ---------------------------------- *)
NoResp == [t |-> "none"]
NoBody == UpdateBody(Undef, Undef, Undef, Undef, Undef)
NoStore == [customers |-> {}, orders |-> {}, order_items |-> {}]

IdleRq ==
  [ pc |-> "idle", kind |-> "none", body |-> NoBody, customerId |-> 0, orderId |-> 0,
    i |-> 0, total |-> 0, err |-> "", resp |-> NoResp, snap |-> {},
    pre |-> NoStore, issued |-> {}, found |-> {}, rolledBack |-> TRUE ]

NoDays == [start |-> NULL, end |-> NULL, daysCount |-> 0, computed |-> FALSE]

\* GET /api/order-full-details before a request
NoRd == [pc |-> "idle", orderId |-> Undef, order |-> NULL, resp |-> NoResp, n |-> 0]

\* what a render produced: nothing yet
NoOut ==
  [ pages |-> 0, daysCount |-> 0, marks |-> << >>, cursor |-> 0,
    box |-> [page |-> 0, y |-> 0], boxText |-> << >>, grand |-> 0 ]
NoRead == [order |-> NULL, items |-> << >>]

\* the render before this one: none yet
NoPrev == [orderId |-> Undef, pre |-> NoStore, read |-> NoRead, out |-> NoOut]

\* GET /api/invoice/:orderId before a request
NoInv ==
  [ pc |-> "idle", orderId |-> Undef, order |-> NULL, status |-> 0, body |-> "",
    sent |-> FALSE, ended |-> FALSE, logged |-> FALSE, failed |-> "",
    read |-> NoRead, out |-> NoOut, prev |-> NoPrev, pre |-> NoStore, n |-> 0 ]

\* the store a deployment starts from: empty, or what earlier requests left.  Two
\* /api/new-customer requests with the same phone (Chair 50 x 4 and Table 200 x 1
\* rented day 0 to day 2; Tent 300 x 2 without dates), then /api/update-status on
\* the second customer.
SeedCustomers ==
  { [id |-> 1, name |-> Str("Asha"), phone |-> Str("900"), alt_phone |-> Str("901"),
     address |-> Str("Shimoga"), rent_status |-> "ACTIVE", xmin |-> 0, xmax |-> 0],
    [id |-> 2, name |-> Str("Ravi"), phone |-> Str("900"), alt_phone |-> NULL,
     address |-> Str("Bhadravati"), rent_status |-> "RETURNED", xmin |-> 0, xmax |-> 0] }
SeedOrders ==
  { [id |-> 1, invoice_no |-> 1, customer_id |-> 1, order_date |-> Day(0), rent_start |-> Day(0),
     rent_end |-> Day(2), total |-> 400, xmin |-> 0, xmax |-> 0],
    [id |-> 2, invoice_no |-> 2, customer_id |-> 2, order_date |-> Today, rent_start |-> NULL,
     rent_end |-> NULL, total |-> 600, xmin |-> 0, xmax |-> 0] }
SeedItems ==
  { [id |-> 1, order_id |-> 1, product |-> "Chair", price |-> 50, quantity |-> 4,
     line_total |-> 200, xmin |-> 0, xmax |-> 0],
    [id |-> 2, order_id |-> 1, product |-> "Table", price |-> 200, quantity |-> 1,
     line_total |-> 200, xmin |-> 0, xmax |-> 0],
    [id |-> 3, order_id |-> 2, product |-> "Tent", price |-> 300, quantity |-> 2,
     line_total |-> 600, xmin |-> 0, xmax |-> 0] }

\* a stored item as the line a request wrote
AsLine(w) == [ f \in {"product", "price", "quantity", "line_total"} |-> w[f] ]

\* the lines of order o among the item rows S, ORDER BY id ASC
LinesOf(S, o) ==
  LET rows == ById({ w \in S : w.order_id = o })
  IN [ i \in 1..Len(rows) |-> AsLine(rows[i]) ]

InitStore ==
  \/ /\ customers = {} /\ orders = {} /\ order_items = {}
     /\ seq = [customers |-> 0, orders |-> 0, order_items |-> 0]
     /\ lastWrite = << >>
  \/ /\ customers = SeedCustomers /\ orders = SeedOrders /\ order_items = SeedItems
     /\ seq = [customers |-> Cardinality(SeedCustomers), orders |-> Cardinality(SeedOrders),
               order_items |-> Cardinality(SeedItems)]
     /\ lastWrite = [ o \in { w.id : w \in SeedOrders } |-> LinesOf(SeedItems, o) ]

Init ==
  /\ InitStore
  /\ pool = 0
  /\ rq = [ r \in Slots |-> IdleRq ]
  /\ started = 0
  /\ days = NoDays
  /\ inv = NoInv
  /\ rd = NoRd

(* ------------------------- handler plumbing ---------------------------- *)
\* variant: the finally block does not release
ReleasedCountLeak(n) == n

\* client.release() in the finally block: the pool's count of checked-out clients
ReleasedCount(n) == n - 1

\* res.json(...) followed by the finally block
\* the handler returns: its locals are gone, what it answered stays
Returned(rec, response) ==
  [IdleRq EXCEPT !.pc = "done", !.kind = rec.kind, !.body = rec.body, !.err = rec.err,
                 !.resp = response, !.pre = rec.pre, !.issued = rec.issued, !.found = rec.found,
                 !.rolledBack = rec.rolledBack]

Finish(r, rec, response) ==
  /\ rq' = [rq EXCEPT ![r] = Returned(rec, response)]
  /\ pool' = ReleasedCount(pool)

\* the handler awaits client.query(stmt)
Await(rec, stmt) == [rec EXCEPT !.pc = stmt, !.issued = @ \cup {stmt}]

Failure(msg) == [success |-> FALSE, error |-> msg]

\* const { ..., items = [] } = req.body
ItemsOf(k, b) == IF k # "update-order" /\ b.items = Undef THEN Arr(<< >>) ELSE b.items

\* the checks before BEGIN: the error they answer with, or "" when they pass
ValidationError(k, b) ==
  IF k = "update-order"
    THEN IF Falsy(b.orderId) THEN "Missing orderId"
         ELSE IF ItemsOf(k, b).t # "array" \/ Len(ItemsOf(k, b).a) = 0 THEN "No items provided"
         ELSE ""
    ELSE IF Falsy(b.name) \/ Falsy(b.phone) \/ Falsy(b.address)
           THEN "Missing required fields (name, phone, address)"
         ELSE IF ItemsOf(k, b).t # "array" \/ Len(ItemsOf(k, b).a) = 0 THEN "No product items found"
         ELSE ""

\* the item loop reaches item n: total += line, then await the INSERT
NextItem(rec, n) ==
  Await([rec EXCEPT !.i = n, !.total = @ + Line(rec.body.items.a[n]).line_total], "INSERT order_items")

(* ------------------------------ actions -------------------------------- *)
\* a request arrives and its handler awaits pool.connect()
Arrive(r, k, b) ==
  /\ rq[r].pc \in {"idle", "done"}
  /\ started < MaxReqs
  /\ started' = started + 1
  /\ rq' = [rq EXCEPT ![r] = [IdleRq EXCEPT !.pc = "connect", !.kind = k, !.body = b, !.pre = Store]]
  /\ UNCHANGED << customers, orders, order_items, seq, pool, lastWrite, days, inv, rd >>

\* pool.connect() rejects: it is awaited outside the try, nothing answers the request
ConnectFails(r) ==
  /\ rq[r].pc = "connect"
  /\ rq' = [rq EXCEPT ![r] = Returned([@ EXCEPT !.err = "connect"], NoResp)]
  /\ UNCHANGED << customers, orders, order_items, seq, pool, started, lastWrite, days, inv, rd >>

\* pool.connect() returns a client; the body is validated; BEGIN is awaited
Connected(r) ==
  LET rec == rq[r]
      msg == ValidationError(rec.kind, rec.body)
  IN /\ rec.pc = "connect"
     /\ IF msg # ""
          THEN /\ rq' = [rq EXCEPT ![r] = Returned(rec, Failure(msg))]
               /\ pool' = ReleasedCount(pool + 1)
          ELSE /\ rq' = [rq EXCEPT ![r] = Await(rec, "BEGIN")]
               /\ pool' = pool + 1
     /\ UNCHANGED << customers, orders, order_items, seq, started, lastWrite, days, inv, rd >>

\* variant: /api/new-customer looks the customer up by phone as /api/generate-bill does
BeginFindOrCreate(r) ==
  LET rec == rq[r]
  IN /\ rec.pc = "BEGIN"
     /\ rq' = [rq EXCEPT ![r] =
            CASE rec.kind \in {"new-customer", "generate-bill"} -> Await(rec, "SELECT customers")
              [] OTHER -> Await(rec, "SELECT orders")]
     /\ UNCHANGED << customers, orders, order_items, seq, pool, started, lastWrite, days, inv, rd >>

\* BEGIN returns: the handler awaits its first statement
Begin(r) ==
  LET rec == rq[r]
  IN /\ rec.pc = "BEGIN"
     /\ rq' = [rq EXCEPT ![r] =
            CASE rec.kind = "new-customer" -> Await(rec, "INSERT customers")
              [] rec.kind = "generate-bill" -> Await(rec, "SELECT customers")
              [] OTHER -> Await(rec, "SELECT orders")]
     /\ UNCHANGED << customers, orders, order_items, seq, pool, started, lastWrite, days, inv, rd >>

\* SELECT id FROM customers WHERE phone=$1, then c.rows[0] (in no stated order)
SelectCustomer(r) ==
  LET rec == rq[r]
      rows == { w \in Visible(customers, r) : w.phone = rec.body.phone }
  IN /\ rec.pc = "SELECT customers"
     /\ IF rows # {}
          THEN \E c \in rows :
                 rq' = [rq EXCEPT ![r] = Await([rec EXCEPT !.customerId = c.id, !.found = {c.id}],
                                               "UPDATE customers")]
          ELSE rq' = [rq EXCEPT ![r] = Await(rec, "INSERT customers")]
     /\ UNCHANGED << customers, orders, order_items, seq, pool, started, lastWrite, days, inv, rd >>

\* variant: the update also resets rent_status
UpdatedCustomerActive(c, b) ==
  [c EXCEPT !.name = b.name, !.alt_phone = OrNull(b.alt_phone), !.address = b.address,
            !.rent_status = "ACTIVE"]

\* UPDATE customers SET name=$1, alt_phone=$2, address=$3 WHERE id=$4
UpdatedCustomer(c, b) ==
  [c EXCEPT !.name = b.name, !.alt_phone = OrNull(b.alt_phone), !.address = b.address]

UpdateCustomer(r) ==
  LET rec == rq[r]
      rows == { w \in Visible(customers, r) : w.id = rec.customerId }
  IN /\ rec.pc = "UPDATE customers"
     /\ \A w \in rows : ~LockedByOther(w, r)
     /\ customers' = IF rows = {} THEN customers
                      ELSE LET c == CHOOSE w \in rows : TRUE
                           IN Supersede(customers, c, UpdatedCustomer(c, rec.body), r)
     /\ rq' = [rq EXCEPT ![r] = Await(rec, "INSERT orders")]
     /\ UNCHANGED << orders, order_items, seq, pool, started, lastWrite, days, inv, rd >>

\* INSERT INTO customers (...) VALUES ($1,$2,$3,$4,'ACTIVE') RETURNING id
NewCustomer(id, b, r) ==
  [id |-> id, name |-> b.name, phone |-> b.phone, alt_phone |-> OrNull(b.alt_phone),
   address |-> b.address, rent_status |-> "ACTIVE", xmin |-> r, xmax |-> 0]

InsertCustomer(r) ==
  LET rec == rq[r]
      id == seq.customers + 1
  IN /\ rec.pc = "INSERT customers"
     /\ customers' = customers \cup { NewCustomer(id, rec.body, r) }
     /\ seq' = [seq EXCEPT !.customers = id]
     /\ rq' = [rq EXCEPT ![r] = Await([rec EXCEPT !.customerId = id], "INSERT orders")]
     /\ UNCHANGED << orders, order_items, pool, started, lastWrite, days, inv, rd >>

\* const finalOrderDate = order_date || dayjs().format("YYYY-MM-DD"); /api/generate-bill
\* always takes the current date
OrderDate(k, b) == IF k = "new-customer" /\ ~Falsy(b.order_date) THEN b.order_date ELSE Today

\* INSERT INTO orders (...) VALUES (uuidv4(), customerId, date, rent_start, rent_end, 0)
\* uuidv4() is a token no other order carries: the order's own sequence number
NewOrder(id, k, b, customerId, r) ==
  [id |-> id, invoice_no |-> id, customer_id |-> customerId, order_date |-> OrderDate(k, b),
   rent_start |-> OrNull(b.rent_start), rent_end |-> OrNull(b.rent_end), total |-> 0,
   xmin |-> r, xmax |-> 0]

InsertOrder(r) ==
  LET rec == rq[r]
      id == seq.orders + 1
  IN /\ rec.pc = "INSERT orders"
     /\ orders' = orders \cup { NewOrder(id, rec.kind, rec.body, rec.customerId, r) }
     /\ seq' = [seq EXCEPT !.orders = id]
     /\ rq' = [rq EXCEPT ![r] = NextItem([rec EXCEPT !.orderId = id], 1)]
     /\ UNCHANGED << customers, order_items, pool, started, lastWrite, days, inv, rd >>

\* INSERT INTO order_items (order_id, product, price, quantity, line_total)
NewItem(id, orderId, it, r) ==
  [id |-> id, order_id |-> orderId, product |-> Line(it).product, price |-> Line(it).price,
   quantity |-> Line(it).quantity, line_total |-> Line(it).line_total, xmin |-> r, xmax |-> 0]

InsertItem(r) ==
  LET rec == rq[r]
      id == seq.order_items + 1
      a == rec.body.items.a
  IN /\ rec.pc = "INSERT order_items"
     /\ order_items' = order_items \cup { NewItem(id, rec.orderId, a[rec.i], r) }
     /\ seq' = [seq EXCEPT !.order_items = id]
     /\ rq' = [rq EXCEPT ![r] =
            IF rec.i < Len(a) THEN NextItem(rec, rec.i + 1)
            ELSE IF rec.kind = "update-order" THEN Await(rec, "UPDATE orders meta")
            ELSE Await(rec, "UPDATE orders total")]
     /\ UNCHANGED << customers, orders, pool, started, lastWrite, days, inv, rd >>

\* UPDATE orders SET total=$1 WHERE id=$2
UpdateTotal(r) ==
  LET rec == rq[r]
      rows == { w \in Visible(orders, r) : w.id = rec.orderId }
  IN /\ rec.pc = "UPDATE orders total"
     /\ \A w \in rows : ~LockedByOther(w, r)
     /\ orders' = IF rows = {} THEN orders
                   ELSE LET o == CHOOSE w \in rows : TRUE
                        IN Supersede(orders, o, [o EXCEPT !.total = rec.total], r)
     /\ rq' = [rq EXCEPT ![r] = Await(rec, "COMMIT")]
     /\ UNCHANGED << customers, order_items, seq, pool, started, lastWrite, days, inv, rd >>

\* res.json({ success: true, ... }) of the three handlers
Success(rec) ==
  CASE rec.kind = "new-customer" ->
         [success |-> TRUE, customerId |-> rec.customerId, orderId |-> rec.orderId]
    [] rec.kind = "generate-bill" ->
         [success |-> TRUE, orderId |-> rec.orderId, invoiceNo |-> rec.orderId]
    [] OTHER -> [success |-> TRUE, total |-> rec.total]

\* COMMIT returns: the transaction's versions become the committed ones
Commit(r) ==
  LET rec == rq[r]
  IN /\ rec.pc = "COMMIT"
     /\ customers' = CommitRows(customers, r)
     /\ orders' = CommitRows(orders, r)
     /\ order_items' = CommitRows(order_items, r)
     /\ lastWrite' = [ o \in (DOMAIN lastWrite) \cup {rec.orderId} |->
                         IF o = rec.orderId THEN Lines(rec.body.items.a) ELSE lastWrite[o] ]
     /\ Finish(r, rec, Success(rec))
     /\ UNCHANGED << seq, started, days, inv, rd >>

\* SELECT id FROM orders WHERE id=$1 LIMIT 1, then the not-found test
SelectOrder(r) ==
  LET rec == rq[r]
      rows == { w \in Visible(orders, r) : Num(w.id) = rec.body.orderId }
  IN /\ rec.pc = "SELECT orders"
     /\ rq' = [rq EXCEPT ![r] =
            IF rows = {} THEN Await(rec, "ROLLBACK not found")
            ELSE Await([rec EXCEPT !.orderId = rec.body.orderId.n], "DELETE order_items")]
     /\ UNCHANGED << customers, orders, order_items, seq, pool, started, lastWrite, days, inv, rd >>

\* the ROLLBACK of the not-found branch returns
RollbackNotFound(r) ==
  LET rec == rq[r]
  IN /\ rec.pc = "ROLLBACK not found"
     /\ customers' = RollbackRows(customers, r)
     /\ orders' = RollbackRows(orders, r)
     /\ order_items' = RollbackRows(order_items, r)
     /\ Finish(r, rec, Failure("Order not found"))
     /\ UNCHANGED << seq, started, lastWrite, days, inv, rd >>

\* DELETE FROM order_items WHERE order_id=$1 starts: it takes its snapshot
DeleteItemsScan(r) ==
  LET rec == rq[r]
  IN /\ rec.pc = "DELETE order_items"
     /\ rq' = [rq EXCEPT ![r] =
            [rec EXCEPT !.pc = "DELETE order_items wait",
                        !.snap = { w.id : w \in { v \in Visible(order_items, r) :
                                                     v.order_id = rec.orderId } }]]
     /\ UNCHANGED << customers, orders, order_items, seq, pool, started, lastWrite, days, inv, rd >>

\* the DELETE has every row lock it needs: it deletes the rows of its snapshot that
\* still exist (a row a committed transaction deleted meanwhile is skipped) and returns
DeleteItems(r) ==
  LET rec == rq[r]
      rows == { w \in order_items : w.id \in rec.snap /\ w.xmax # r }
  IN /\ rec.pc = "DELETE order_items wait"
     /\ \A w \in rows : ~LockedByOther(w, r)
     /\ order_items' = Remove(order_items, rows, r)
     /\ rq' = [rq EXCEPT ![r] = NextItem(rec, 1)]
     /\ UNCHANGED << customers, orders, seq, pool, started, lastWrite, days, inv, rd >>

\* variant: the replace leaves the stored total alone
UpdatedOrderStaleTotal(o, total, b) ==
  [o EXCEPT !.order_date = COALESCE(OrNull(b.order_date), @),
            !.rent_start = COALESCE(OrNull(b.rent_start), @),
            !.rent_end = COALESCE(OrNull(b.rent_end), @)]

\* variant: the replace writes the dates without COALESCE
UpdatedOrderOverwrite(o, total, b) ==
  [o EXCEPT !.total = total,
            !.order_date = OrNull(b.order_date),
            !.rent_start = OrNull(b.rent_start),
            !.rent_end = OrNull(b.rent_end)]

\* UPDATE orders SET total=$1, order_date = COALESCE($2, order_date),
\*   rent_start = COALESCE($3, rent_start), rent_end = COALESCE($4, rent_end) WHERE id=$5
UpdatedOrder(o, total, b) ==
  [o EXCEPT !.total = total,
            !.order_date = COALESCE(OrNull(b.order_date), @),
            !.rent_start = COALESCE(OrNull(b.rent_start), @),
            !.rent_end = COALESCE(OrNull(b.rent_end), @)]

UpdateOrderMeta(r) ==
  LET rec == rq[r]
      rows == { w \in Visible(orders, r) : w.id = rec.orderId }
  IN /\ rec.pc = "UPDATE orders meta"
     /\ \A w \in rows : ~LockedByOther(w, r)
     /\ orders' = IF rows = {} THEN orders
                   ELSE LET o == CHOOSE w \in rows : TRUE
                        IN Supersede(orders, o, UpdatedOrder(o, rec.total, rec.body), r)
     /\ rq' = [rq EXCEPT ![r] = Await(rec, "COMMIT")]
     /\ UNCHANGED << customers, order_items, seq, pool, started, lastWrite, days, inv, rd >>

\* the statements awaited inside the try blocks
Statements ==
  { "BEGIN", "SELECT customers", "UPDATE customers", "INSERT customers", "INSERT orders",
    "INSERT order_items", "UPDATE orders total", "COMMIT", "SELECT orders",
    "ROLLBACK not found", "DELETE order_items", "DELETE order_items wait",
    "UPDATE orders meta" }

\* the awaited statement throws (it changed nothing): the catch block awaits ROLLBACK.
\* The statement's name stands for its error's message.
Throws(r) ==
  LET rec == rq[r]
  IN /\ rec.pc \in Statements
     /\ rq' = [rq EXCEPT ![r] = Await([rec EXCEPT !.err = rec.pc], "ROLLBACK")]
     /\ UNCHANGED << customers, orders, order_items, seq, pool, started, lastWrite, days, inv, rd >>

\* try { await client.query("ROLLBACK"); } catch(_) {} : it returns, or it throws
\* because the connection is gone and the server drops the transaction with it; then
\* res.json({ success: false, error: err.message || "Server error" })
CatchRollback(r, ok) ==
  LET rec == rq[r]
  IN /\ rec.pc = "ROLLBACK"
     /\ customers' = RollbackRows(customers, r)
     /\ orders' = RollbackRows(orders, r)
     /\ order_items' = RollbackRows(order_items, r)
     /\ Finish(r, [rec EXCEPT !.rolledBack = ok], Failure(rec.err))
     /\ UNCHANGED << seq, started, lastWrite, days, inv, rd >>

\* POST /api/update-status: one autocommitted UPDATE customers SET rent_status=$1 WHERE id=$2
\* (what earlier handlers answered is forgotten)
Statuses == { "", "RETURNED" }

UpdateStatus(customerId, status) ==
  /\ started < MaxReqs
  /\ started' = started + 1
  /\ \A w \in Committed(customers) : w.id = customerId => w.xmax = 0
  /\ customers' =
       IF customerId = 0 \/ status = "" THEN customers
       ELSE { IF w.xmin = 0 /\ w.id = customerId THEN [w EXCEPT !.rent_status = status] ELSE w :
              w \in customers }
  /\ rq' = [ r \in Slots |-> IF rq[r].pc = "done" THEN IdleRq ELSE rq[r] ]
  /\ UNCHANGED << orders, order_items, seq, pool, lastWrite, days, inv, rd >>

(* --------------------- GET /api/order-full-details --------------------- *)
\* SELECT o.*, c.name AS cname, ... FROM orders o JOIN customers c ON c.id=o.customer_id
\* WHERE o.id=$1: pool.query runs it on a connection of its own, outside any
\* transaction, so it sees the committed versions
JoinedRow(o, c) ==
  Plainrow(o) @@ [cname |-> c.name, cphone |-> c.phone, caltphone |-> c.alt_phone,
                  caddress |-> c.address]

OrderJoin(orderId) ==
  { JoinedRow(p[1], p[2]) :
      p \in { q \in Committed(orders) \X Committed(customers) :
                Num(q[1].id) = orderId /\ q[2].id = q[1].customer_id } }

\* SELECT * FROM order_items WHERE order_id=$1 ORDER BY id ASC
ItemsOfOrder(orderId) ==
  ById({ Plainrow(w) : w \in { v \in Committed(order_items) : Num(v.order_id) = orderId } })

\* the request arrives: if (!orderId) return ...; then the order query is awaited
ArriveDetails(o) ==
  /\ rd.pc \in {"idle", "done"}
  /\ rd.n < MaxReads
  /\ rd' = IF Falsy(o)
             THEN [NoRd EXCEPT !.pc = "done", !.orderId = o, !.n = rd.n + 1,
                               !.resp = Failure("Missing orderId")]
             ELSE [NoRd EXCEPT !.pc = "SELECT order", !.orderId = o, !.n = rd.n + 1]
  /\ UNCHANGED << customers, orders, order_items, seq, pool, rq, started, lastWrite, days, inv >>

\* the order query returns: not found, or the items query is awaited
DetailsOrder ==
  /\ rd.pc = "SELECT order"
  /\ IF OrderJoin(rd.orderId) = {}
       THEN rd' = [rd EXCEPT !.pc = "done", !.resp = Failure("Order not found")]
       ELSE \E row \in OrderJoin(rd.orderId) :
              rd' = [rd EXCEPT !.pc = "SELECT items", !.order = row]
  /\ UNCHANGED << customers, orders, order_items, seq, pool, rq, started, lastWrite, days, inv >>

\* the items query returns: res.json({ success: true, order: order.rows[0], items: items.rows })
DetailsItems ==
  /\ rd.pc = "SELECT items"
  /\ rd' = [rd EXCEPT !.pc = "done",
                      !.resp = [success |-> TRUE, order |-> rd.order, items |-> ItemsOfOrder(rd.orderId)]]
  /\ UNCHANGED << customers, orders, order_items, seq, pool, rq, started, lastWrite, days, inv >>

\* either query throws: res.json({ success: false })
DetailsThrows ==
  /\ rd.pc \in {"SELECT order", "SELECT items"}
  /\ rd' = [rd EXCEPT !.pc = "done", !.resp = [success |-> FALSE]]
  /\ UNCHANGED << customers, orders, order_items, seq, pool, rq, started, lastWrite, days, inv >>

(* ------------------------- invoice day count --------------------------- *)
\* dayjs rounds a difference toward zero (absFloor)
AbsFloor(n, d) == IF n >= 0 THEN n \div d ELSE -((-n) \div d)

\* end.diff(start, "day")
DiffDays(start, end) == AbsFloor(end.d - start.d, TicksPerDay)

\* variant: the day count without its floor of 1
rentalDaysNoFloor(start, end) ==
  IF ~Falsy(start) /\ ~Falsy(end) THEN DiffDays(start, end) + 1 ELSE 1

\* let daysCount = 1; if (order.rent_start && order.rent_end) { ... diff > 0 ? diff : 1 }
rentalDays(start, end) ==
  IF ~Falsy(start) /\ ~Falsy(end)
    THEN LET diff == DiffDays(start, end) + 1
         IN IF diff > 0 THEN diff ELSE 1
    ELSE 1

Instants == { NULL } \cup { When(t) : t \in 0..MaxTick }

\* the order row an invoice is rendered for: any two dates
InitDays ==
  /\ customers = {} /\ orders = {} /\ order_items = {}
  /\ seq = [customers |-> 0, orders |-> 0, order_items |-> 0]
  /\ lastWrite = << >>
  /\ pool = 0
  /\ rq = [ r \in Slots |-> IdleRq ]
  /\ started = 0
  /\ inv = NoInv
  /\ rd = NoRd
  /\ \E s \in Instants, e \in Instants : days = [start |-> s, end |-> e, daysCount |-> 0, computed |-> FALSE]

\* GET /api/invoice/:orderId computes daysCount from the order's dates
ComputeDays ==
  /\ ~days.computed
  /\ days' = [days EXCEPT !.daysCount = rentalDays(days.start, days.end), !.computed = TRUE]
  /\ UNCHANGED << customers, orders, order_items, seq, pool, rq, started, lastWrite, inv, rd >>

(* --------------------------- invoice layout ---------------------------- *)
\* Lengths are in thousandths of a point.
Pt(n) == n * 1000

\* new PDFDocument({ size: "A4", margin: 40 }): an A4 page is 595.28 x 841.89 points
PageHeight == 841890
Margin == 40000

\* doc.page.maxY(): the bottom margin, below which the library starts no line of text
MaxY == PageHeight - Margin

\* the height of a line of text in the two standard fonts, per point of font size
Helvetica(size) == 1156 * size
HelveticaBold(size) == 1190 * size

\* variant: the space check adds the 60 it should subtract
BreakLimitAdded == PageHeight + Pt(60)

\* doc.page.height - 60
BreakLimit == PageHeight - Pt(60)

\* let cy = 130, then four times cy += 25: where the RENT line is written
RentLineY == Pt(130) + 4 * Pt(25)

\* let tableTop = doc.y + 30, doc.y being the bottom of the RENT line
TableTop == RentLineY + Helvetica(12) + Pt(30)

\* doc.text(s, x, y) with a line of height lh: a line that would end below the bottom
\* margin is written at the top of a new page instead
Overflows(y, lh) == y + lh > MaxY
TextPage(page, y, lh) == IF Overflows(y, lh) THEN page + 1 ELSE page
TextY(y, lh) == IF Overflows(y, lh) THEN Margin ELSE y

\* a mark in drawing order
Mark(kind, page, y) == [kind |-> kind, page |-> page, y |-> y]

\* the column header row: DESCRIPTION, PRICE, QTY, AMOUNT at y, and a rule under them
HeaderRow(marks, page, y) ==
  Append(marks, Mark("header", TextPage(page, y, HelveticaBold(11)), TextY(y, HelveticaBold(11))))

\* variant: the page break does not redraw the column headers
RedrawnOmitted(marks, page) == marks

\* y = 40, then the header row again on the page just added
Redrawn(marks, page) == HeaderRow(marks, page, Pt(40))

\* variant: the amount leaves the day count out
AmountPerDay(it, daysCount) ==
  IF safeNumber(Num(it.line_total)) # 0 THEN safeNumber(Num(it.line_total))
  ELSE safeNumber(Num(it.price)) * safeNumber(Num(it.quantity))

\* (safeNumber(it.line_total) || (price * qty)) * daysCount
Amount(it, daysCount) ==
  (IF safeNumber(Num(it.line_total)) # 0 THEN safeNumber(Num(it.line_total))
   ELSE safeNumber(Num(it.price)) * safeNumber(Num(it.quantity))) * daysCount

\* variant: grand is a variable of the module, not of the request
GrandStartCarried == inv.prev.out.grand

\* let grand = 0
GrandStart == 0

\* the layout before the first row: the first header row is drawn at tableTop on
\* page 1, let y = tableTop + 25
TableStart ==
  [ page |-> 1, y |-> TableTop + Pt(25), grand |-> GrandStart,
    marks |-> HeaderRow(<< >>, 1, TableTop) ]

\* one turn of the row loop
PlaceRow(st, it, daysCount) ==
  LET brk == st.y + Pt(50) > BreakLimit
      \* doc.addPage(); y = 40; the header row; y += 25
      page0 == IF brk THEN st.page + 1 ELSE st.page
      marks0 == IF brk THEN Redrawn(st.marks, page0) ELSE st.marks
      y0 == IF brk THEN Pt(40) + Pt(25) ELSE st.y
      \* the four fields of the row at y, each a doc.text
      page1 == TextPage(page0, y0, Helvetica(10))
      page4 == TextPage(TextPage(TextPage(page1, y0, Helvetica(10)), y0, Helvetica(10)),
                        y0, Helvetica(10))
      \* the breakdown at y + 10
      page5 == TextPage(page4, y0 + Pt(10), Helvetica(8))
      \* y += 22, the rule, y += 8, y += 20: the summary title
      y1 == y0 + Pt(22) + Pt(8) + Pt(20)
      page6 == TextPage(page5, y1, HelveticaBold(11))
      \* y += 18: the per-day total; y += 16: the day count; y += 16: the final total
      y2 == y1 + Pt(18)
      page7 == TextPage(page6, y2, Helvetica(10))
      y3 == y2 + Pt(16)
      page8 == TextPage(page7, y3, Helvetica(10))
      y4 == y3 + Pt(16)
      page9 == TextPage(page8, y4, Helvetica(10))
  IN [ \* y += 30, the rule
       y |-> y4 + Pt(30),
       page |-> page9,
       grand |-> st.grand + Amount(it, daysCount),
       marks |-> marks0 \o
                 << [ kind |-> "row", page |-> page1, y |-> TextY(y0, Helvetica(10)),
                      cursor |-> y0, lastPage |-> page4, amount |-> Amount(it, daysCount) ],
                    [ kind |-> "breakdown", page |-> page5, y |-> TextY(y0 + Pt(10), Helvetica(8)),
                      cursor |-> y0 + Pt(10) ] >> ]

\* for (const it of itemsQ.rows) { ... }
RECURSIVE RowLoop(_, _, _)
RowLoop(st, items, daysCount) ==
  IF items = << >> THEN st
  ELSE RowLoop(PlaceRow(st, Head(items), daysCount), Tail(items), daysCount)

\* a line of text written where the last one ended (doc.y): the next line of a
\* wrapped paragraph, or a doc.text without a position
FlowLine(d, lh) ==
  IF Overflows(d.y, lh) THEN [page |-> d.page + 1, y |-> Margin + lh]
  ELSE [page |-> d.page, y |-> d.y + lh]

\* lines the footer's address takes in the column left of x = 360, in Helvetica 10
FooterLines == 3

\* the total box, then the footer: doc.moveDown(4), the address, doc.moveDown(1), the
\* thank-you line; doc.end()
Finished(st, daysCount) ==
  LET y == st.y + Pt(30)
      \* TOTAL at y + 8 in bold 13, the grand total at y + 28 in bold 16
      page1 == TextPage(st.page, y + Pt(8), HelveticaBold(13))
      page2 == TextPage(page1, y + Pt(28), HelveticaBold(16))
      d0 == [page |-> page2, y |-> TextY(y + Pt(28), HelveticaBold(16)) + HelveticaBold(16)]
      d1 == [d0 EXCEPT !.y = @ + 4 * HelveticaBold(16)]
      d2 == FlowLine(FlowLine(FlowLine(d1, Helvetica(10)), Helvetica(10)), Helvetica(10))
      d3 == [d2 EXCEPT !.y = @ + Helvetica(10)]
      d4 == FlowLine(d3, HelveticaBold(11))
  IN [ pages |-> d4.page, daysCount |-> daysCount, marks |-> st.marks, cursor |-> st.y,
       box |-> [page |-> st.page, y |-> y],
       boxText |-> << Mark("TOTAL", page1, TextY(y + Pt(8), HelveticaBold(13))),
                      Mark("grand", page2, TextY(y + Pt(28), HelveticaBold(16))) >>,
       grand |-> st.grand ]

\* what the handler draws for an order row and its item rows
Rendered(order, items) ==
  LET daysCount == rentalDays(order.rent_start, order.rent_end)
  IN Finished(RowLoop(TableStart, items, daysCount), daysCount)

(* ---------------------- GET /api/invoice/:orderId ---------------------- *)
\* SELECT o.*, c.name AS cname, c.phone AS cphone, c.address AS caddress
\* FROM orders o JOIN customers c ON o.customer_id = c.id WHERE o.id=$1 LIMIT 1
InvoiceJoin(orderId) ==
  { Plainrow(p[1]) @@ [cname |-> p[2].name, cphone |-> p[2].phone, caddress |-> p[2].address] :
      p \in { q \in Committed(orders) \X Committed(customers) :
                Num(q[1].id) = orderId /\ q[2].id = q[1].customer_id } }

\* the request arrives and the order query is awaited
ArriveInvoice(o) ==
  /\ inv.pc \in {"idle", "done"}
  /\ inv.n < MaxRenders
  /\ inv' = [NoInv EXCEPT !.pc = "SELECT order", !.orderId = o, !.n = inv.n + 1, !.pre = Store,
                          !.prev = IF inv.out # NoOut
                                     THEN [orderId |-> inv.orderId, pre |-> inv.pre,
                                           read |-> inv.read, out |-> inv.out]
                                     ELSE inv.prev]
  /\ UNCHANGED << customers, orders, order_items, seq, pool, rq, started, lastWrite, days, rd >>

\* the order query returns: res.status(404).send("Order not found"), or the items
\* query is awaited
InvoiceOrder ==
  /\ inv.pc = "SELECT order"
  /\ IF InvoiceJoin(inv.orderId) = {}
       THEN inv' = [inv EXCEPT !.pc = "done", !.status = 404, !.body = "Order not found",
                               !.sent = TRUE, !.ended = TRUE]
       ELSE \E row \in InvoiceJoin(inv.orderId) :
              inv' = [inv EXCEPT !.pc = "SELECT items", !.order = row]
  /\ UNCHANGED << customers, orders, order_items, seq, pool, rq, started, lastWrite, days, rd >>

\* the items query returns and the handler runs to its end: the document is piped
\* to the response, drawn, and ended; its bytes have yet to flow
InvoiceItems ==
  /\ inv.pc = "SELECT items"
  /\ inv' = [inv EXCEPT !.pc = "streaming", !.status = 200, !.body = "pdf",
                        !.read = [order |-> inv.order, items |-> ItemsOfOrder(inv.orderId)],
                        !.out = Rendered(inv.order, ItemsOfOrder(inv.orderId))]
  /\ UNCHANGED << customers, orders, order_items, seq, pool, rq, started, lastWrite, days, rd >>

\* catch (err) { console.error(...); if (!res.headersSent) res.status(500).send("PDF Error"); }
Caught(rec, what) ==
  IF ~rec.sent
    THEN [rec EXCEPT !.pc = "done", !.failed = what, !.logged = TRUE, !.status = 500,
                     !.body = "PDF Error", !.sent = TRUE, !.ended = TRUE, !.out = NoOut]
    ELSE [rec EXCEPT !.pc = "done", !.failed = what, !.logged = TRUE]

\* a query throws, or a call of the drawing code does once the items are there
InvoiceThrows ==
  /\ inv.pc \in {"SELECT order", "SELECT items"}
  /\ \E what \in {inv.pc} \cup (IF inv.pc = "SELECT items" THEN {"draw"} ELSE {}) :
       inv' = Caught(inv, what)
  /\ UNCHANGED << customers, orders, order_items, seq, pool, rq, started, lastWrite, days, rd >>

\* doc.pipe(res): the first bytes of the document reach the response, and its headers
\* go out with them
StreamStarts ==
  /\ inv.pc = "streaming" /\ ~inv.sent
  /\ inv' = [inv EXCEPT !.sent = TRUE]
  /\ UNCHANGED << customers, orders, order_items, seq, pool, rq, started, lastWrite, days, rd >>

\* the last bytes have gone: the pipe ends the response
StreamEnds ==
  /\ inv.pc = "streaming" /\ inv.sent
  /\ inv' = [inv EXCEPT !.pc = "done", !.ended = TRUE]
  /\ UNCHANGED << customers, orders, order_items, seq, pool, rq, started, lastWrite, days, rd >>

\* the response fails or its client goes away while bytes flow: the handler has
\* returned, and it gave neither the document nor the response an error handler
SinkFails ==
  /\ inv.pc = "streaming" /\ inv.sent
  /\ inv' = [inv EXCEPT !.pc = "done", !.failed = "sink"]
  /\ UNCHANGED << customers, orders, order_items, seq, pool, rq, started, lastWrite, days, rd >>

(* --------------------------- specifications ---------------------------- *)
Step(r) ==
  \/ ConnectFails(r)
  \/ Connected(r)
  \/ Begin(r)
  \/ SelectCustomer(r)
  \/ UpdateCustomer(r)
  \/ InsertCustomer(r)
  \/ InsertOrder(r)
  \/ InsertItem(r)
  \/ UpdateTotal(r)
  \/ Commit(r)
  \/ SelectOrder(r)
  \/ RollbackNotFound(r)
  \/ DeleteItemsScan(r)
  \/ DeleteItems(r)
  \/ UpdateOrderMeta(r)
  \/ Throws(r)
  \/ \E ok \in BOOLEAN : CatchRollback(r, ok)

Quiet == \A r \in Slots : rq[r].pc \in {"idle", "done"}

\* the slot a new request takes
FreeSlot(r) ==
  /\ rq[r].pc \in {"idle", "done"}
  /\ \A q \in Slots : q < r => rq[q].pc \notin {"idle", "done"}

\* requests overlap
Next ==
  \/ \E r \in Slots, k \in Kinds : \E b \in { x \in BodiesOf(k) : Plain(x) } :
       FreeSlot(r) /\ Arrive(r, k, b)
  \/ \E r \in Slots : Step(r)
  \/ \E c \in 0..2, s \in Statuses : UpdateStatus(c, s)

Spec == Init /\ [][Next]_vars

\* requests run one after another
NextSeq ==
  \/ \E k \in Kinds : \E b \in BodiesOf(k) : Quiet /\ Arrive(1, k, b)
  \/ Step(1)
  \/ \E c \in 0..2, s \in Statuses : Quiet /\ UpdateStatus(c, s)

SpecSeq == Init /\ [][NextSeq]_vars

\* the steps of POST /api/update-order
ReplaceStep(r) ==
  \/ ConnectFails(r)
  \/ Connected(r)
  \/ Begin(r)
  \/ SelectOrder(r)
  \/ RollbackNotFound(r)
  \/ DeleteItemsScan(r)
  \/ DeleteItems(r)
  \/ InsertItem(r)
  \/ UpdateOrderMeta(r)
  \/ Commit(r)
  \/ Throws(r)
  \/ \E ok \in BOOLEAN : CatchRollback(r, ok)

\* a read of an order's details overlaps replaces
NextRead ==
  \/ \E o \in OrderIds : ArriveDetails(o)
  \/ DetailsOrder
  \/ DetailsItems
  \/ DetailsThrows
  \/ \E r \in Slots : \E b \in { x \in UpdateBodies : Plain(x) } :
       FreeSlot(r) /\ Arrive(r, "update-order", b)
  \/ \E r \in Slots : ReplaceStep(r)

SpecRead == Init /\ [][NextRead]_vars

\* the steps of POST /api/new-customer
CreateStep(r) ==
  \/ ConnectFails(r)
  \/ Connected(r)
  \/ Begin(r)
  \/ InsertCustomer(r)
  \/ InsertOrder(r)
  \/ InsertItem(r)
  \/ UpdateTotal(r)
  \/ Commit(r)
  \/ Throws(r)
  \/ \E ok \in BOOLEAN : CatchRollback(r, ok)

\* one /api/new-customer after another, with any price and quantity
NextCoerce ==
  \/ \E its \in OddItemLists :
       Quiet /\ Arrive(1, "new-customer", CreateBody(AnyCustomer, Undef, Undef, Undef, its))
  \/ CreateStep(1)

SpecCoerce == Init /\ [][NextCoerce]_vars

\* the order an invoice is asked for: one customer, one order of n items
RowItem(i) == Catalogue[((i - 1) % Len(Catalogue)) + 1]
InvoiceItemRows(n) == { NewItem(i, 1, RowItem(i), 0) : i \in 1..n }
InvoiceDates == { << NULL, NULL >>, << Day(0), Day(2) >>, << Day(3), Day(1) >> }

InitInvoice ==
  /\ \/ \E n \in 1..MaxRows, ds \in InvoiceDates :
          /\ customers = { c \in SeedCustomers : c.id = 1 }
          /\ orders = { [id |-> 1, invoice_no |-> 1, customer_id |-> 1, order_date |-> Today,
                         rent_start |-> ds[1], rent_end |-> ds[2],
                         total |-> SumLines(InvoiceItemRows(n)), xmin |-> 0, xmax |-> 0] }
          /\ order_items = InvoiceItemRows(n)
          /\ seq = [customers |-> 1, orders |-> 1, order_items |-> n]
          /\ lastWrite = [ o \in {1} |-> LinesOf(InvoiceItemRows(n), 1) ]
     \/ /\ customers = SeedCustomers /\ orders = SeedOrders /\ order_items = SeedItems
        /\ seq = [customers |-> Cardinality(SeedCustomers), orders |-> Cardinality(SeedOrders),
                  order_items |-> Cardinality(SeedItems)]
        /\ lastWrite = [ o \in { w.id : w \in SeedOrders } |-> LinesOf(SeedItems, o) ]
  /\ pool = 0
  /\ rq = [ r \in Slots |-> IdleRq ]
  /\ started = 0
  /\ days = NoDays
  /\ inv = NoInv
  /\ rd = NoRd

InvoiceQuiet == inv.pc \in {"idle", "done"}

\* invoices and replaces, one request after another
NextInvoice ==
  \/ \E o \in {Num(1), Num(7)} : Quiet /\ ArriveInvoice(o)
  \/ InvoiceOrder
  \/ InvoiceItems
  \/ InvoiceThrows
  \/ StreamStarts
  \/ StreamEnds
  \/ SinkFails
  \/ \E b \in { x \in UpdateBodies : Plain(x) /\ x.orderId \in {Num(1), Num(7)} /\ x.items \in ItemLists } :
       Quiet /\ InvoiceQuiet /\ started = 0 /\ Arrive(1, "update-order", b)
  \/ ReplaceStep(1)

SpecInvoice == InitInvoice /\ [][NextInvoice]_vars

\* the day count alone
NextDays == ComputeDays

SpecDays == InitDays /\ [][NextDays]_vars

(* ------------------------------ claims --------------------------------- *)
Done(r) == rq[r].pc = "done"
Succeeded(r) == Done(r) /\ rq[r].resp # NoResp /\ rq[r].resp.success
OrderRow(S, id) == CHOOSE o \in S.orders : o.id = id
ItemRows(S, id) == { w \in S.order_items : w.order_id = id }

\* C1: in every committed store that requests run one after another produce, each
\* order's total is the sum of line_total over the order_items rows of that order.
TotalInvariant ==
  \A o \in Store.orders : o.total = SumLines(ItemRows(Store, o.id))

\* C1 witness: a replace committed on an order and changed its total.
TotalInvariantWitness ==
  /\ Succeeded(1) /\ rq[1].kind = "update-order"
  /\ \E o \in Store.orders, p \in rq[1].pre.orders :
       o.id = p.id /\ Num(o.id) = rq[1].body.orderId /\ o.total # p.total

\* C2: once a statement of createOrder or replaceOrderItems has failed, the committed
\* store is the one the operation started from, also after the handler has returned.
RollbackOnFailure ==
  \A r \in Slots : rq[r].err \in Statements => Store = rq[r].pre

\* C2 witness: the COMMIT of a replace over existing items failed and the handler
\* returned.
RollbackOnFailureWitness ==
  /\ Done(1) /\ rq[1].kind = "update-order" /\ rq[1].err = "COMMIT"
  /\ ItemRows(rq[1].pre, rq[1].body.orderId.n) # {}

\* C3: a replace whose order lookup found no row answers 'Order not found' and
\* leaves the store as it was.
ReplaceMissingOrder ==
  \A r \in Slots :
    (Done(r) /\ rq[r].kind = "update-order" /\ "ROLLBACK not found" \in rq[r].issued)
      => /\ rq[r].resp = Failure("Order not found")
         /\ Store = rq[r].pre

\* the inputs C4 names
Missing(v) == v \in {Undef, NULL, Str("")}
NoItems(v) == v.t # "array" \/ v.a = << >>
Rejected(k, b) ==
  IF k = "update-order" THEN Missing(b.orderId) \/ NoItems(b.items)
  ELSE Missing(b.name) \/ Missing(b.phone) \/ Missing(b.address) \/ NoItems(b.items)

\* C4: a request with a missing name, phone or address, or without a non-empty
\* array of items (for a replace: without orderId or without items), is answered
\* {success: false, error} with no statement issued and the store unchanged.
ValidationBeforeWrite ==
  \A r \in Slots :
    (Done(r) /\ Rejected(rq[r].kind, rq[r].body))
      => /\ rq[r].resp # NoResp
         /\ ~rq[r].resp.success
         /\ rq[r].resp.error # ""
         /\ rq[r].issued = {}
         /\ Store = rq[r].pre

\* what does hold of such a request: no statement is issued and the store is
\* unchanged, and once pool.connect() has returned a client it is answered
\* {success: false, error}
ValidationAfterConnect ==
  \A r \in Slots :
    (Done(r) /\ Rejected(rq[r].kind, rq[r].body))
      => /\ rq[r].issued = {}
         /\ Store = rq[r].pre
         /\ rq[r].err # "connect"
              => /\ rq[r].resp # NoResp
                 /\ ~rq[r].resp.success
                 /\ rq[r].resp.error # ""

\* C5: after a committed replace, each of order_date, rent_start and rent_end holds
\* the request's value if the request supplied one and its earlier value otherwise.
Kept(new, old, v) == new = (IF v = Undef THEN old ELSE v)
CoalesceSemantics ==
  \A r \in Slots :
    (Succeeded(r) /\ rq[r].kind = "update-order")
      => LET new == OrderRow(Store, rq[r].body.orderId.n)
             old == OrderRow(rq[r].pre, rq[r].body.orderId.n)
         IN /\ Kept(new.order_date, old.order_date, rq[r].body.order_date)
            /\ Kept(new.rent_start, old.rent_start, rq[r].body.rent_start)
            /\ Kept(new.rent_end, old.rent_end, rq[r].body.rent_end)

\* C5 witness: a replace supplying only rent_end committed on an order that had
\* other dates: rent_end changed, order_date and rent_start stayed.
CoalesceSemanticsWitness ==
  /\ Succeeded(1) /\ rq[1].kind = "update-order"
  /\ rq[1].body.order_date = Undef /\ rq[1].body.rent_start = Undef /\ rq[1].body.rent_end = Day(3)
  /\ LET new == OrderRow(Store, rq[1].body.orderId.n)
         old == OrderRow(rq[1].pre, rq[1].body.orderId.n)
     IN /\ old.rent_end = Day(2) /\ new.rent_end = Day(3)
        /\ new.rent_start = Day(0) /\ new.order_date = Day(0)

\* C6: whatever the interleaving, the committed items of an order are the items of
\* the request that committed last on it, and its total is their sum.
LastCommittedWins ==
  \A o \in Store.orders :
    o.id \in DOMAIN lastWrite
      => /\ LinesOf(Store.order_items, o.id) = lastWrite[o.id]
         /\ o.total = SumSeq(lastWrite[o.id])

\* C7: the pool's checked-out count is the number of handlers holding a client, so
\* every handler that got a client gave it back once, and none is out when no
\* request is in flight.
Holding(r) == rq[r].pc \notin {"idle", "connect", "done"}
NoLeakedConnections ==
  /\ pool = Cardinality({ r \in Slots : Holding(r) })
  /\ Quiet => pool = 0

\* C7 witness: a statement failed, the catch's ROLLBACK failed too, the handler
\* returned, and no client is checked out.
NoLeakedConnectionsWitness ==
  /\ Quiet /\ pool = 0
  /\ \E r \in Slots : Done(r) /\ rq[r].err \in Statements /\ ~rq[r].rolledBack
  /\ \E r \in Slots : Done(r) /\ rq[r].resp = Failure("Order not found")

\* whole days from instant s to instant e, counted toward zero
WholeDays(s, e) ==
  LET gap == IF e >= s THEN e - s ELSE s - e
      k == CHOOSE n \in 0..gap : n * TicksPerDay <= gap /\ gap < (n + 1) * TicksPerDay
  IN IF e >= s THEN k ELSE -k

\* C8: the day count is 1 when a date is absent, whole days + 1 when that is
\* positive and 1 otherwise; so it is at least 1, 1 for equal dates and 3 from
\* day 0 to day 2.
RentalDaysLaw ==
  days.computed =>
    /\ (days.start = NULL \/ days.end = NULL) => days.daysCount = 1
    /\ (days.start # NULL /\ days.end # NULL) =>
         LET n == WholeDays(days.start.d, days.end.d) + 1
         IN days.daysCount = (IF n > 0 THEN n ELSE 1)
    /\ days.daysCount >= 1
    /\ (days.start # NULL /\ days.start = days.end) => days.daysCount = 1
    /\ (days.start = Day(0) /\ days.end = Day(2)) => days.daysCount = 3

\* C8 witness: the count from day 0 to day 2 was computed.
RentalDaysLawWitness ==
  /\ days.computed /\ days.start = Day(0) /\ days.end = Day(2) /\ days.daysCount = 3

\* the stored form of an optional request field
Stored(v) == IF Missing(v) THEN NULL ELSE v

\* C9: a successful /api/generate-bill whose phone an existing customer has inserts
\* no customer, sets that customer's name, alt_phone and address and nothing else,
\* and attaches the new order to it; with no such customer it inserts one ACTIVE
\* customer and attaches the order to it.
FindOrCreateByPhone ==
  \A r \in Slots :
    (Succeeded(r) /\ rq[r].kind = "generate-bill")
      => LET b == rq[r].body
             old == rq[r].pre.customers
             new == Store.customers
             ord == OrderRow(Store, rq[r].resp.orderId)
             same == { c \in old : c.phone = b.phone }
         IN /\ ord \notin rq[r].pre.orders
            /\ IF same # {}
                 THEN \E c \in same :
                        /\ new = (old \ {c}) \cup
                                   { [c EXCEPT !.name = b.name, !.alt_phone = Stored(b.alt_phone),
                                               !.address = b.address] }
                        /\ ord.customer_id = c.id
                 ELSE \E c \in new :
                        /\ c \notin old /\ new = old \cup {c}
                        /\ c.rent_status = "ACTIVE" /\ c.phone = b.phone
                        /\ ord.customer_id = c.id

\* C9 witness: the bill's phone matched a customer that was not ACTIVE and whose
\* name, alt_phone and address all differed from the request's.
FindOrCreateByPhoneWitness ==
  /\ Succeeded(1) /\ rq[1].kind = "generate-bill"
  /\ \E c \in rq[1].pre.customers, d \in Store.customers :
       /\ c.id = d.id /\ c.phone = rq[1].body.phone
       /\ OrderRow(Store, rq[1].resp.orderId).customer_id = c.id
       /\ c.rent_status = "RETURNED" /\ d.rent_status = "RETURNED"
       /\ c.name # d.name /\ c.alt_phone # d.alt_phone /\ c.address # d.address

\* C10: a successful /api/new-customer adds exactly one customer row, changes no
\* earlier row, and its order references the new customer.
AlwaysInsert ==
  \A r \in Slots :
    (Succeeded(r) /\ rq[r].kind = "new-customer")
      => LET old == rq[r].pre.customers
             new == Store.customers
         IN /\ old \subseteq new
            /\ Cardinality(new) = Cardinality(old) + 1
            /\ \A c \in new \ old : /\ c.id = rq[r].resp.customerId
                                     /\ \A d \in old : d.id # c.id
            /\ OrderRow(Store, rq[r].resp.orderId).customer_id = rq[r].resp.customerId
            /\ OrderRow(Store, rq[r].resp.orderId) \notin rq[r].pre.orders

\* C10 witness: the request's phone was already a customer's.
AlwaysInsertWitness ==
  /\ Succeeded(1) /\ rq[1].kind = "new-customer"
  /\ \E c \in rq[1].pre.customers : c.phone = rq[1].body.phone
  /\ Cardinality({ c \in Store.customers : c.phone = rq[1].body.phone }) = 3

\* the outcome a handler was about to report when it issued a ROLLBACK
Original(r) ==
  IF "ROLLBACK not found" \in rq[r].issued /\ rq[r].err \in {"", "ROLLBACK not found"}
    THEN "Order not found"
    ELSE rq[r].err

\* C15: a handler that issued a ROLLBACK, in its catch block or on the not-found
\* path of a replace, answers {success: false, error} with the outcome it had before
\* the ROLLBACK, also when the ROLLBACK itself fails.
FailureReporting ==
  \A r \in Slots :
    (Done(r) /\ rq[r].issued \cap {"ROLLBACK", "ROLLBACK not found"} # {})
      => rq[r].resp = Failure(Original(r))

\* what does hold: a failure of the catch block's own ROLLBACK never changes the
\* answer
CatchRollbackSwallowed ==
  \A r \in Slots :
    (Done(r) /\ "ROLLBACK" \in rq[r].issued) => rq[r].resp = Failure(rq[r].err)

\* C16: whatever replaces a read of an order's details overlaps, the total of the
\* order row it returns is the sum of line_total of the items it returns.
NoStaleTotalForReaders ==
  (rd.pc = "done" /\ rd.resp.success)
    => rd.resp.order.total = SumSeq(rd.resp.items)

\* C17: every stored price, quantity and line_total is a number >= 0, and
\* line_total = price x quantity, whatever the request sent as price and quantity.
LineAmountCoercion ==
  \A w \in Store.order_items :
    /\ w.price >= 0 /\ w.quantity >= 0 /\ w.line_total >= 0
    /\ w.line_total = w.price * w.quantity

\* what does hold: a value that is no finite number is stored as 0, a finite number
\* is stored as it is (negative or not), and line_total is their product
Coerced(v) ==
  IF v \in {Num(5), Num(0), Num(-5)} THEN v.n
  ELSE IF v = Str("12") THEN 12
  ELSE IF v = Str("-3") THEN -3
  ELSE IF v = Str("050") THEN 50
  ELSE 0

LineAmountOfFiniteInputs ==
  \A r \in Slots :
    (Succeeded(r) /\ rq[r].kind = "new-customer")
      => LET its == rq[r].body.items.a
             rows == ById(ItemRows(Store, rq[r].resp.orderId))
         IN /\ Len(rows) = Len(its)
            /\ \A i \in 1..Len(its) :
                 /\ rows[i].price = Coerced(its[i].price)
                 /\ rows[i].quantity = Coerced(its[i].quantity)
                 /\ rows[i].line_total = rows[i].price * rows[i].quantity

\* C19: after a successful replace of an existing order, the order's item rows are
\* the request's items in request order (ascending id), each with line_total =
\* price x quantity; no row the order had before the call is left; and the total
\* answered is the order's stored total.
FullReplacement ==
  \A r \in Slots :
    (Succeeded(r) /\ rq[r].kind = "update-order")
      => LET o == rq[r].body.orderId.n
             its == rq[r].body.items.a
             rows == ById(ItemRows(Store, o))
         IN /\ Len(rows) = Len(its)
            /\ \A i \in 1..Len(its) :
                 /\ rows[i].product = its[i].product
                 /\ rows[i].price = its[i].price.n
                 /\ rows[i].quantity = its[i].quantity.n
                 /\ rows[i].line_total = its[i].price.n * its[i].quantity.n
            /\ \A w \in ItemRows(rq[r].pre, o) : \A v \in Store.order_items : v.id # w.id
            /\ rq[r].resp.total = OrderRow(Store, o).total

\* C19 witness: a replace with two items committed on an order that had two other
\* items.
FullReplacementWitness ==
  /\ Succeeded(1) /\ rq[1].kind = "update-order"
  /\ Len(rq[1].body.items.a) = 2
  /\ Cardinality(ItemRows(rq[1].pre, rq[1].body.orderId.n)) = 2
  /\ \A w \in ItemRows(rq[1].pre, rq[1].body.orderId.n) : w.product \in {"Chair", "Table"}
  /\ \A w \in ItemRows(Store, rq[1].body.orderId.n) : w.product \in {"Tent", "Stool"}

(* ----------------------- claims on the invoice ------------------------- *)
\* the handler drew a document to its end
Completed == inv.pc \in {"streaming", "done"} /\ inv.out # NoOut
RowMarks(out) == { k \in DOMAIN out.marks : out.marks[k].kind = "row" }

\* C11: the grand total of a rendered invoice is the sum over the committed items of
\* the order of line_total x rentalDays(rent_start, rent_end), which is the order's
\* stored total times that day count (Chair 50 x 4 and Table 200 x 1 over day 0 to
\* day 2: total 400, grand total 1200).
GrandTotal ==
  Completed =>
    LET o == OrderRow(inv.pre, inv.orderId.n)
        d == rentalDays(o.rent_start, o.rent_end)
        its == ItemRows(inv.pre, o.id)
    IN /\ inv.out.grand = SumLines({ [id |-> w.id, line_total |-> w.line_total * d] : w \in its })
       /\ inv.out.grand = o.total * d
       /\ ({ w.product : w \in its } = {"Chair", "Table"} /\ o.rent_start = Day(0) /\ o.rent_end = Day(2))
            => o.total = 400 /\ inv.out.grand = 1200

\* C11 witness: the invoice of the Chair and Table order over three days was drawn.
GrandTotalWitness ==
  /\ Completed /\ inv.out.grand = 1200 /\ inv.out.daysCount = 3
  /\ OrderRow(inv.pre, inv.orderId.n).total = 400
  /\ { w.product : w \in ItemRows(inv.pre, inv.orderId.n) } = {"Chair", "Table"}

\* C12: on every page of a rendered invoice that carries an item row, a column
\* header row is drawn on that page before the page's first item row.
HeadersRepeat ==
  Completed =>
    \A k \in RowMarks(inv.out) :
      \E j \in 1..(k - 1) :
        /\ inv.out.marks[j].kind = "header"
        /\ inv.out.marks[j].page = inv.out.marks[k].page
        /\ inv.out.marks[j].y < inv.out.marks[k].y
        /\ \A m \in 1..(j - 1) :
             ~(inv.out.marks[m].kind = "row" /\ inv.out.marks[m].page = inv.out.marks[k].page)

\* C12 witness: an invoice whose item rows fill three pages was drawn.
HeadersRepeatWitness ==
  /\ Completed
  /\ Cardinality({ inv.out.marks[k].page : k \in RowMarks(inv.out) }) = 3
  /\ Cardinality({ k \in DOMAIN inv.out.marks : inv.out.marks[k].kind = "header" }) = 3

\* C13: every item row is drawn at the cursor y and its breakdown at y + 10, both on
\* one page and ending above the limit of the space check; the row is drawn only at
\* a cursor where the check's 50 units fit above that limit.
PaginationInvariant ==
  Completed =>
    \A k \in RowMarks(inv.out) :
      LET row == inv.out.marks[k]
          sub == inv.out.marks[k + 1]
      IN /\ sub.kind = "breakdown"
         /\ row.page = row.lastPage /\ sub.page = row.page
         /\ row.y = row.cursor /\ sub.y = row.cursor + Pt(10)
         /\ row.y + Helvetica(10) <= PageHeight - Pt(60)
         /\ sub.y + Helvetica(8) <= PageHeight - Pt(60)
         /\ row.cursor + Pt(50) <= PageHeight - Pt(60)

\* C13 witness: a row was drawn after a page break, and another as the last row that
\* fits its page.
PaginationInvariantWitness ==
  /\ Completed
  /\ \E k \in RowMarks(inv.out) : inv.out.marks[k].page = 2 /\ inv.out.marks[k].cursor = Pt(65)
  /\ \E k \in RowMarks(inv.out) :
       /\ inv.out.marks[k].page = 1
       /\ inv.out.marks[k].cursor + Pt(130) + Pt(50) > PageHeight - Pt(60)

\* C14: a render that fails before any byte of the response is answered 500; one
\* that fails after output has begun has its response ended and the failure logged.
RenderFailureHandling ==
  (inv.pc = "done" /\ inv.failed # "")
    => IF inv.failed = "sink"
         THEN inv.ended /\ inv.logged
         ELSE inv.status = 500 /\ inv.body = "PDF Error" /\ inv.ended /\ inv.logged

\* what does hold: a failure inside the handler comes before any byte, is logged
\* and is answered 500
RenderFailureBeforeOutput ==
  (inv.pc = "done" /\ inv.failed \notin {"", "sink"})
    => inv.status = 500 /\ inv.body = "PDF Error" /\ inv.ended /\ inv.logged

TotalBoxOnPage ==
  Completed =>
    /\ inv.out.box.y >= 0
    /\ inv.out.box.y + Pt(50) <= PageHeight
    /\ inv.out.cursor <= PageHeight - Pt(60)

\* the calls made so far, when each still fills the slot it arrived in (slot 1 then
\* holds the first of them, and its pre is the store they started from)
CallsMade == { r \in Slots : rq[r].pc # "idle" }
FindOrCreateCase ==
  /\ Quiet /\ CallsMade # {} /\ started = Cardinality(CallsMade)
  /\ \A r \in CallsMade : rq[r].kind = "generate-bill" /\ rq[r].body.phone = rq[1].body.phone
  /\ \A c \in rq[1].pre.customers : c.phone # rq[1].body.phone
  /\ \E r \in CallsMade : Succeeded(r)
WithPhone(S, p) == { c \in S.customers : c.phone = p }

\* C21: from a store with no customer of phone P, once /api/generate-bill calls that
\* all carry P (and no other request) have returned, however they overlapped, there
\* is exactly one customer row with phone P and every order they created references
\* it.
FindOrCreateRaceFree ==
  FindOrCreateCase =>
    LET rows == WithPhone(Store, rq[1].body.phone)
    IN /\ Cardinality(rows) = 1
       /\ \A r \in CallsMade :
            Succeeded(r) => OrderRow(Store, rq[r].resp.orderId).customer_id \in { c.id : c \in rows }

\* what does hold: when at most one of the calls that committed had found no row of
\* phone P, there is one row and the orders reference it
FindOrCreateWhenSeen ==
  (FindOrCreateCase
     /\ Cardinality({ r \in CallsMade : Succeeded(r) /\ rq[r].found = {} }) <= 1)
    => LET rows == WithPhone(Store, rq[1].body.phone)
       IN /\ Cardinality(rows) = 1
          /\ \A r \in CallsMade :
               Succeeded(r) => OrderRow(Store, rq[r].resp.orderId).customer_id \in { c.id : c \in rows }

\* two calls overlapped, the later one's SELECT saw the row the earlier one had
\* committed, and both committed
FindOrCreateSeenReached ==
  /\ FindOrCreateCase /\ Cardinality(CallsMade) = 2
  /\ \A r \in CallsMade : Succeeded(r)
  /\ \E r \in CallsMade : rq[r].found # {}

====
